---- MODULE Spec2Model ----
(***************************************************************************)
(* Model of elasticsearch/connection_pool.py: RoundRobinSelector and       *)
(* ConnectionPool (live list, dead priority queue, failure counters).      *)
(*                                                                         *)
(* Spec      : every public method runs atomically (one action per call).  *)
(* SpecConc  : several threads run the methods statement by statement.     *)
(***************************************************************************)
EXTENDS Integers, Sequences, FiniteSets, TLC

VARIABLES
    connection_opts,  \* self.connection_opts: the handles as given to __init__
    connections,      \* self.connections: the live list
    dead,             \* self.dead: PriorityQueue of <<timeout, connection>>
    dead_count,       \* self.dead_count: dict connection -> consecutive failures
    dead_timeout,     \* self.dead_timeout
    timeout_cutoff,   \* self.timeout_cutoff
    selector_class,   \* the class of self.selector
    rr,               \* self.selector.rr
    clock,            \* time.time()
    last,             \* the last call and its outcome
    fails,            \* history: effective mark_dead calls since the last mark_live
    redeemed,         \* history: mark_live was called after failures, no failure since
    streak,           \* history: consecutive get_connection calls over an unchanged live list
    scn,              \* history: progress along the calls get, get, mark_dead(B), get, get
    thr               \* per thread: the statement it is at and its local variables

pool == <<connection_opts, connections, dead, dead_count, dead_timeout, timeout_cutoff,
          selector_class, rr>>
config == <<connection_opts, dead_timeout, timeout_cutoff, selector_class>>
hist == <<fails, redeemed, streak, scn>>
vars == <<pool, clock, last, hist, thr>>

(***************************************************************************)
(* Bounds of the model.                                                    *)
(***************************************************************************)
\* the clock advances at most MaxTicks times
MaxTicks == 2
\* a pool of n connections is explored up to MaxFail \div n failures in a row
\* of each connection
MaxFail == 6
\* the cursor self.rr is incremented only up to MaxRR
MaxRR == 3
\* consecutive get_connection calls are counted up to MaxStreak
MaxStreak == 4

(***************************************************************************)
(* Values.                                                                 *)
(***************************************************************************)
Handles == {"A", "B", "C"}
Threads == {"t1", "t2"}
\* a connection the pool was never given
Stranger == "X"
\* Python's None for the optional argument now
None == -1
NoConn == "-"

\* comparison of two connection objects, used by the queue to break ties
HandleOrd(c) == CASE c = "A" -> 1 [] c = "B" -> 2 [] c = "C" -> 3 [] OTHER -> 4

Range(s) == {s[i] : i \in DOMAIN s}
Min(a, b) == IF a < b THEN a ELSE b


(***************************************************************************)
(* Python containers.                                                      *)
(***************************************************************************)
\* a remove that leaves the element in the list
ListRemoveKeeps(l, x) == l

\* list.remove(x): drops the first occurrence of x
RECURSIVE ListRemove(_, _)
ListRemove(l, x) ==
    IF l = <<>> THEN <<>>
    ELSE IF Head(l) = x THEN Tail(l)
    ELSE <<Head(l)>> \o ListRemove(Tail(l), x)

\* a quarantined connection is taken for a live one
InListOrDead(x, l) ==
    \/ \E i \in DOMAIN l : l[i] = x
    \/ \E i \in DOMAIN dead : dead[i][2] = x

\* x in l
InList(x, l) == \E i \in DOMAIN l : l[i] = x

\* a get that never finds the key
DictGetDefault(d, k, default) == default

\* dict.get(k, default)
DictGet(d, k, default) == IF k \in DOMAIN d THEN d[k] ELSE default

\* d[k] = v
DictSet(d, k, v) == [x \in (DOMAIN d) \cup {k} |-> IF x = k THEN v ELSE d[x]]

\* a del that empties the dict
DictDelAll(d, k) == <<>>

\* a del that leaves the entry in the dict
DictDelKeeps(d, k) == d

\* del d[k]
DictDel(d, k) == [x \in (DOMAIN d) \ {k} |-> d[x]]

\* (t1, c1) < (t2, c2) on tuples
TupleLess(e1, e2) ==
    \/ e1[1] < e2[1]
    \/ e1[1] = e2[1] /\ HandleOrd(e1[2]) < HandleOrd(e2[2])

\* a queue that hands its entries out in the order they were put
PQPutFifo(q, e) == Append(q, e)

\* a put that loses the entry
PQPutDrops(q, e) == q

\* a queue that hands out first what was put last
PQPutLifo(q, e) == <<e>> \o q

\* PriorityQueue.put on a queue that is not full; the queue is kept as the
\* sequence of its entries in the order get() hands them out
RECURSIVE PQPut(_, _)
PQPut(q, e) ==
    IF q = <<>> THEN <<e>>
    ELSE IF TupleLess(e, Head(q)) THEN <<e>> \o q
    ELSE <<Head(q)>> \o PQPut(Tail(q), e)

\* PriorityQueue(maxsize): full when maxsize > 0 and qsize() >= maxsize
PQFull(q, maxsize) == maxsize > 0 /\ Len(q) >= maxsize

\* a queue with room for one connection less
DeadMaxsizeLess == Len(connection_opts) - 1

\* the maxsize given to PriorityQueue in __init__
DeadMaxsize == Len(connection_opts)

(***************************************************************************)
(* Expressions of the methods.                                             *)
(***************************************************************************)
\* now = now if now else time.time()
Now(now) == IF now # None /\ now # 0 THEN now ELSE clock

\* the exponent counts the failure itself
TimeoutOffByOne(dc) == dead_timeout * 2 ^ Min(dc, timeout_cutoff)

\* timeout = self.dead_timeout * 2 ** min(dead_count - 1, self.timeout_cutoff)
Timeout(dc) == dead_timeout * 2 ^ Min(dc - 1, timeout_cutoff)

\* the comparison with the clock turned around
NotEligibleInverted(force, timeout) == ~force /\ timeout < clock

\* not force and timeout > time.time()
NotEligible(force, timeout) == ~force /\ timeout > clock

\* the forced resurrection left out
NoLiveNever(conns) == FALSE

\* if not self.connections
NoLive(conns) == Len(conns) = 0

\* the cursor stops at the last element instead of wrapping
RRAdvanceClamped(r, n) == IF r + 1 < n THEN r + 1 ELSE n - 1

\* self.rr += 1; self.rr %= len(connections)
RRAdvance(r, n) == (r + 1) % n


\* random.choice(connections) picks any index; round-robin picks the next one
SelectIndexes(r, n) ==
    IF selector_class = "RoundRobinSelector" THEN {RRAdvance(r, n)} ELSE 0 .. (n - 1)

\* what select raises on an empty list: the modulo by zero, or random.choice
SelectError ==
    IF selector_class = "RoundRobinSelector" THEN "ZeroDivisionError" ELSE "IndexError"

(***************************************************************************)
(* resurrect(force) as a function of the live list and the dead queue.     *)
(***************************************************************************)
\* the popped entry goes to the live list (it is not put back)
ResurrectAppends(dq, force) == dq # <<>> /\ ~NotEligible(force, Head(dq)[1])

ConnsAfterResurrect(conns, dq, force) ==
    IF ResurrectAppends(dq, force) THEN Append(conns, Head(dq)[2]) ELSE conns

\* the entry that is not eligible is not put back
DeadAfterResurrectDrops(dq, force) == IF dq = <<>> THEN dq ELSE Tail(dq)

DeadAfterResurrect(dq, force) ==
    IF dq = <<>> THEN dq
    ELSE IF NotEligible(force, Head(dq)[1]) THEN PQPut(Tail(dq), Head(dq))
    ELSE Tail(dq)

(***************************************************************************)
(* Construction.                                                           *)
(***************************************************************************)
DefaultDeadTimeout == 60
DefaultTimeoutCutoff == 5

\* random.shuffle(self.connections): any order of the same handles
Shuffles(s) == {p \in [1 .. Len(s) -> Range(s)] : Range(p) = Range(s)}

\* the arguments __init__ is called with
Constructions ==
    { [connections |-> <<"A">>, dead_timeout |-> DefaultDeadTimeout,
       timeout_cutoff |-> DefaultTimeoutCutoff,
       selector_class |-> "RoundRobinSelector", randomize_hosts |-> FALSE],
      [connections |-> <<"A", "B", "C">>, dead_timeout |-> DefaultDeadTimeout,
       timeout_cutoff |-> DefaultTimeoutCutoff,
       selector_class |-> "RoundRobinSelector", randomize_hosts |-> FALSE],
      [connections |-> <<"A", "B">>, dead_timeout |-> 1, timeout_cutoff |-> 1,
       selector_class |-> "RoundRobinSelector", randomize_hosts |-> TRUE],
      [connections |-> <<"A", "B">>, dead_timeout |-> 1, timeout_cutoff |-> 1,
       selector_class |-> "RandomSelector", randomize_hosts |-> FALSE] }

Call(op, c, now, force, raised, result, timeout, effective) ==
    [op |-> op, connection |-> c, now |-> now, force |-> force, raised |-> raised,
     result |-> result, timeout |-> timeout, effective |-> effective, after_live |-> FALSE]

\* a thread that is in no method
Idle ==
    [pc |-> "idle", connection |-> NoConn, now |-> None, force |-> FALSE, timeout |-> 0,
     dc |-> 0, ret |-> "", r |-> 0, exc |-> "", result |-> NoConn]

InitPool(k) ==
    /\ connection_opts = k.connections
    /\ connections \in (IF k.randomize_hosts THEN Shuffles(k.connections)
                        ELSE {k.connections})
    /\ dead = <<>>
    /\ dead_count = <<>>
    /\ dead_timeout = k.dead_timeout
    /\ timeout_cutoff = k.timeout_cutoff
    /\ selector_class = k.selector_class
    /\ rr = -1

Init ==
    /\ \E k \in Constructions : InitPool(k)
    /\ thr = [t \in Threads |-> Idle]
    /\ clock = 0
    /\ last = Call("__init__", NoConn, None, FALSE, "", NoConn, 0, FALSE)
    /\ fails = [c \in Handles |-> 0]
    /\ redeemed = [c \in Handles |-> FALSE]
    /\ streak = 0
    /\ scn = IF /\ connections = <<"A", "B", "C">>
                /\ dead_timeout = 60 /\ timeout_cutoff = 5
                /\ selector_class = "RoundRobinSelector"
             THEN 0 ELSE -1

\* the next position along get, get, mark_dead(B), get, get; -1 once off it
ScnNext(op, c) ==
    IF scn \in {0, 1, 3, 4} /\ op = "get_connection" THEN scn + 1
    ELSE IF scn = 2 /\ op = "mark_dead" /\ c = "B" THEN 3
    ELSE -1

(***************************************************************************)
(* The methods, each run atomically.                                       *)
(***************************************************************************)
MarkDead(connection, now) ==
    LET t == Now(now)
        dc == DictGet(dead_count, connection, 0) + 1
        timeout == Timeout(dc)
    IN  IF ~InList(connection, connections)
        THEN \* ValueError: not alive, ignore
             /\ UNCHANGED <<pool, clock, fails, redeemed, thr>>
             /\ streak' = 0
             /\ last' = Call("mark_dead", connection, None, FALSE, "", NoConn, 0, FALSE)
             /\ scn' = -1
        ELSE /\ dc * Len(connection_opts) <= MaxFail
             /\ connections' = ListRemove(connections, connection)
             /\ dead_count' = DictSet(dead_count, connection, dc)
             /\ IF PQFull(dead, DeadMaxsize)
                THEN \* put waits for a free slot that nobody makes
                     /\ dead' = dead
                     /\ last' = [Call("mark_dead", connection, now, FALSE, "blocked",
                                      NoConn, timeout, TRUE)
                                   EXCEPT !.after_live = redeemed[connection]]
                ELSE /\ dead' = PQPut(dead, <<t + timeout, connection>>)
                     /\ last' = [Call("mark_dead", connection, now, FALSE, "",
                                      NoConn, timeout, TRUE)
                                   EXCEPT !.after_live = redeemed[connection]]
             /\ fails' = [fails EXCEPT ![connection] = @ + 1]
             /\ redeemed' = [redeemed EXCEPT ![connection] = FALSE]
             /\ scn' = ScnNext("mark_dead", connection)
             /\ streak' = 0
             /\ UNCHANGED <<config, rr, clock, thr>>

MarkLive(connection) ==
    /\ dead_count' = IF connection \in DOMAIN dead_count
                     THEN DictDel(dead_count, connection)
                     ELSE dead_count  \* KeyError: ignore
    /\ last' = Call("mark_live", IF connection \in DOMAIN dead_count THEN connection ELSE NoConn,
                    None, FALSE, "", NoConn, 0, connection \in DOMAIN dead_count)
    /\ fails' = [c \in Handles |-> IF c = connection THEN 0 ELSE fails[c]]
    /\ redeemed' = [c \in Handles |->
                      IF c = connection /\ fails[c] > 0 THEN TRUE ELSE redeemed[c]]
    /\ streak' = 0
    /\ scn' = -1
    /\ UNCHANGED <<config, connections, dead, rr, clock, thr>>

Resurrect(force) ==
    /\ connections' = ConnsAfterResurrect(connections, dead, force)
    /\ dead' = DeadAfterResurrect(dead, force)
    /\ last' = Call("resurrect", NoConn, None, force, "",
                    IF ResurrectAppends(dead, force) THEN Head(dead)[2] ELSE NoConn,
                    0, ResurrectAppends(dead, force))
    /\ scn' = -1
    /\ streak' = 0
    /\ UNCHANGED <<config, dead_count, rr, clock, fails, redeemed, thr>>

GetConnection ==
    LET c1 == ConnsAfterResurrect(connections, dead, FALSE)
        d1 == DeadAfterResurrect(dead, FALSE)
        forced == NoLive(c1)
        c2 == IF forced THEN ConnsAfterResurrect(c1, d1, TRUE) ELSE c1
        d2 == IF forced THEN DeadAfterResurrect(d1, TRUE) ELSE d1
        n == Len(c2)
    IN  /\ connections' = c2
        /\ dead' = d2
        /\ IF n = 0
           THEN /\ rr' = IF selector_class = "RoundRobinSelector" THEN rr + 1 ELSE rr
                /\ last' = Call("get_connection", NoConn, None, forced, SelectError,
                                NoConn, 0, FALSE)
           ELSE \E i \in SelectIndexes(rr, n) :
                /\ rr' = IF selector_class = "RoundRobinSelector" THEN i ELSE rr
                /\ last' = Call("get_connection", NoConn, None, forced /\ d1 # <<>>, "",
                                c2[i + 1], 0, c2 # connections)
        /\ scn' = ScnNext("get_connection", NoConn)
        /\ streak' = IF last.op = "get_connection" /\ c2 = connections
                      THEN Min(streak + 1, MaxStreak) ELSE 1
        /\ UNCHANGED <<config, dead_count, clock, fails, redeemed, thr>>

\* time passes
Tick ==
    /\ clock < MaxTicks * dead_timeout
    /\ clock' = clock + dead_timeout
    /\ scn' = -1
    /\ UNCHANGED <<pool, last, fails, redeemed, streak, thr>>

Next ==
    \/ \E c \in Handles \cup {Stranger} : \E now \in {None, 0, dead_timeout} : MarkDead(c, now)
    \/ \E c \in Handles \cup {Stranger} : MarkLive(c)
    \/ \E force \in BOOLEAN : Resurrect(force)
    \/ GetConnection
    \/ Tick

Spec == Init /\ [][Next]_vars

(***************************************************************************)
(* The methods run by threads.  A step is one access to the shared pool    *)
(* (the interpreter runs each such access without interruption and may     *)
(* switch threads between any two), together with the thread-local         *)
(* statements and the clock reads next to it.                              *)
(***************************************************************************)
At(t, p) == thr[t].pc = p
Goto(t, rec) == thr' = [thr EXCEPT ![t] = rec]

\* resurrect: if self.dead.empty(): return
\* (back in the caller at ret), else on to self.dead.get
ResurrectEntry(t, force, ret) ==
    IF dead = <<>>
    THEN Goto(t, [Idle EXCEPT !.pc = ret])
    ELSE Goto(t, [Idle EXCEPT !.pc = "rs_get", !.force = force, !.ret = ret])

\* pool.get_connection(): self.resurrect(), up to its test of self.dead.empty()
CallGetConnection(t) ==
    /\ At(t, "idle")
    /\ ResurrectEntry(t, FALSE, "gc_check")
    /\ UNCHANGED <<pool, clock, last, hist>>

\* pool.resurrect(force), up to its test of self.dead.empty()
CallResurrect(t, force) ==
    /\ At(t, "idle")
    /\ ResurrectEntry(t, force, "idle")
    /\ UNCHANGED <<pool, clock, last, hist>>

\* pool.mark_dead(connection, now): now = now if now else time.time();
\* self.connections.remove(connection), or ValueError: return
MdRemove(t, connection, now) ==
    /\ At(t, "idle")
    /\ IF InList(connection, connections)
       THEN /\ (DictGet(dead_count, connection, 0) + 1) * Len(connection_opts) <= MaxFail
            /\ connections' = ListRemove(connections, connection)
            /\ Goto(t, [Idle EXCEPT !.pc = "md_get", !.connection = connection,
                                    !.now = Now(now)])
       ELSE /\ connections' = connections
            /\ Goto(t, [Idle EXCEPT !.pc = "md_except", !.connection = connection])
    /\ UNCHANGED <<config, dead, dead_count, rr, clock, last, hist>>

\* except ValueError: return
MdExcept(t) ==
    /\ At(t, "md_except")
    /\ Goto(t, Idle)
    /\ UNCHANGED <<pool, clock, last, hist>>

\* dead_count = self.dead_count.get(connection, 0) + 1
MdGet(t) ==
    /\ At(t, "md_get")
    /\ Goto(t, [thr[t] EXCEPT !.pc = "md_set",
                              !.dc = DictGet(dead_count, thr[t].connection, 0) + 1])
    /\ UNCHANGED <<pool, clock, last, hist>>

\* self.dead_count[connection] = dead_count
MdSet(t) ==
    /\ At(t, "md_set")
    /\ dead_count' = DictSet(dead_count, thr[t].connection, thr[t].dc)
    /\ Goto(t, [thr[t] EXCEPT !.pc = "md_put"])
    /\ UNCHANGED <<config, connections, dead, rr, clock, last, hist>>

\* self.dead.put((now + timeout, connection)): waits while the queue is full
MdPut(t) ==
    /\ At(t, "md_put")
    /\ ~PQFull(dead, DeadMaxsize)
    /\ dead' = PQPut(dead, <<thr[t].now + Timeout(thr[t].dc), thr[t].connection>>)
    /\ Goto(t, Idle)
    /\ UNCHANGED <<config, connections, dead_count, rr, clock, last, hist>>

\* pool.mark_live(connection): del self.dead_count[connection], or KeyError: pass
MlDel(t, connection) ==
    /\ At(t, "idle")
    /\ connection \in DOMAIN dead_count
    /\ dead_count' = DictDel(dead_count, connection)
    /\ UNCHANGED <<config, connections, dead, rr, clock, last, hist, thr>>

\* the first statement of the forced resurrect in get_connection
RsEmpty(t) ==
    /\ At(t, "rs_empty")
    /\ ResurrectEntry(t, TRUE, "sel_load1")
    /\ UNCHANGED <<pool, clock, last, hist>>

\* timeout, connection = self.dead.get(block=False), or Empty: return;
\* then the test: not force and timeout > time.time()
RsGet(t) ==
    /\ At(t, "rs_get")
    /\ IF dead = <<>>
       THEN /\ dead' = dead
            /\ Goto(t, [Idle EXCEPT !.pc = thr[t].ret])
       ELSE /\ dead' = Tail(dead)
            /\ Goto(t, [thr[t] EXCEPT
                          !.pc = IF NotEligible(thr[t].force, Head(dead)[1])
                                 THEN "rs_put" ELSE "rs_append",
                          !.timeout = Head(dead)[1], !.connection = Head(dead)[2]])
    /\ UNCHANGED <<config, connections, dead_count, rr, clock, last, hist>>

\* self.dead.put((timeout, connection)); return
RsPut(t) ==
    /\ At(t, "rs_put")
    /\ ~PQFull(dead, DeadMaxsize)
    /\ dead' = PQPut(dead, <<thr[t].timeout, thr[t].connection>>)
    /\ Goto(t, [Idle EXCEPT !.pc = thr[t].ret])
    /\ UNCHANGED <<config, connections, dead_count, rr, clock, last, hist>>

\* self.connections.append(connection)
RsAppend(t) ==
    /\ At(t, "rs_append")
    /\ connections' = Append(connections, thr[t].connection)
    /\ Goto(t, [Idle EXCEPT !.pc = thr[t].ret])
    /\ UNCHANGED <<config, dead, dead_count, rr, clock, last, hist>>

\* if not self.connections: self.resurrect(True)
GcCheck(t) ==
    /\ At(t, "gc_check")
    /\ IF NoLive(connections)
       THEN Goto(t, [Idle EXCEPT !.pc = "rs_empty"])
       ELSE Goto(t, [Idle EXCEPT !.pc = "sel_load1"])
    /\ UNCHANGED <<pool, clock, last, hist>>

\* self.rr += 1: read self.rr
SelLoad1(t) ==
    /\ At(t, "sel_load1")
    /\ Goto(t, [thr[t] EXCEPT !.pc = "sel_store1", !.r = rr])
    /\ UNCHANGED <<pool, clock, last, hist>>

\* self.rr += 1: write self.rr
SelStore1(t) ==
    /\ At(t, "sel_store1")
    /\ thr[t].r < MaxRR
    /\ rr' = thr[t].r + 1
    /\ Goto(t, [thr[t] EXCEPT !.pc = "sel_load2", !.r = 0])
    /\ UNCHANGED <<config, connections, dead, dead_count, clock, last, hist>>

\* self.rr %= len(connections): read self.rr
SelLoad2(t) ==
    /\ At(t, "sel_load2")
    /\ Goto(t, [thr[t] EXCEPT !.pc = "sel_len", !.r = rr])
    /\ UNCHANGED <<pool, clock, last, hist>>

\* self.rr %= len(connections): len(connections) and the modulo
SelLen(t) ==
    /\ At(t, "sel_len")
    /\ IF Len(connections) = 0
       THEN Goto(t, [Idle EXCEPT !.pc = "return", !.exc = "ZeroDivisionError"])
       ELSE Goto(t, [thr[t] EXCEPT !.pc = "sel_store2", !.r = thr[t].r % Len(connections)])
    /\ UNCHANGED <<pool, clock, last, hist>>

\* self.rr %= len(connections): write self.rr
SelStore2(t) ==
    /\ At(t, "sel_store2")
    /\ rr' = thr[t].r
    /\ Goto(t, [thr[t] EXCEPT !.pc = "sel_load3", !.r = 0])
    /\ UNCHANGED <<config, connections, dead, dead_count, clock, last, hist>>

\* return connections[self.rr]: read self.rr
SelLoad3(t) ==
    /\ At(t, "sel_load3")
    /\ Goto(t, [thr[t] EXCEPT !.pc = "sel_index", !.r = rr])
    /\ UNCHANGED <<pool, clock, last, hist>>

\* return connections[self.rr]: the subscript
SelIndex(t) ==
    /\ At(t, "sel_index")
    /\ IF thr[t].r < Len(connections)
       THEN Goto(t, [Idle EXCEPT !.pc = "return", !.result = connections[thr[t].r + 1]])
       ELSE Goto(t, [Idle EXCEPT !.pc = "return", !.exc = "IndexError"])
    /\ UNCHANGED <<pool, clock, last, hist>>

\* get_connection hands its result, or its exception, to the transport
Return(t) ==
    /\ At(t, "return")
    /\ Goto(t, Idle)
    /\ UNCHANGED <<pool, clock, last, hist>>

ConcConstructions ==
    { [connections |-> <<"A">>, dead_timeout |-> 1, timeout_cutoff |-> 1,
       selector_class |-> "RoundRobinSelector", randomize_hosts |-> FALSE],
      [connections |-> <<"A", "B">>, dead_timeout |-> 1, timeout_cutoff |-> 1,
       selector_class |-> "RoundRobinSelector", randomize_hosts |-> FALSE] }

InitConc ==
    /\ \E k \in ConcConstructions : InitPool(k)
    /\ thr = [t \in Threads |-> Idle]
    /\ clock = 0
    /\ last = Call("__init__", NoConn, None, FALSE, "", NoConn, 0, FALSE)
    /\ fails = [c \in Handles |-> 0]
    /\ redeemed = [c \in Handles |-> FALSE]
    /\ streak = 0
    /\ scn = -1

ThreadStep(t) ==
    \/ CallGetConnection(t)
    \/ \E c \in Range(connection_opts) : \E now \in {None, dead_timeout} : MdRemove(t, c, now)
    \/ \E c \in Range(connection_opts) : MlDel(t, c)
    \/ \E force \in BOOLEAN : CallResurrect(t, force)
    \/ MdExcept(t) \/ MdGet(t) \/ MdSet(t) \/ MdPut(t)
    \/ RsEmpty(t) \/ RsGet(t) \/ RsPut(t) \/ RsAppend(t)
    \/ GcCheck(t)
    \/ SelLoad1(t) \/ SelStore1(t) \/ SelLoad2(t) \/ SelLen(t) \/ SelStore2(t)
    \/ SelLoad3(t) \/ SelIndex(t)
    \/ Return(t)

NextConc ==
    \/ \E t \in Threads : ThreadStep(t)
    \/ Tick

SpecConc == InitConc /\ [][NextConc]_vars

(***************************************************************************)
(* Two threads that call select on a live list that nobody changes.        *)
(***************************************************************************)
\* self.selector.select(self.connections)
CallSelect(t) ==
    /\ At(t, "idle")
    /\ Goto(t, [Idle EXCEPT !.pc = "sel_load1"])
    /\ UNCHANGED <<pool, clock, last, hist>>

SelectStep(t) ==
    \/ CallSelect(t)
    \/ SelLoad1(t) \/ SelStore1(t) \/ SelLoad2(t) \/ SelLen(t) \/ SelStore2(t)
    \/ SelLoad3(t) \/ SelIndex(t)
    \/ Return(t)

SelectConstructions ==
    { [connections |-> <<"A">>, dead_timeout |-> DefaultDeadTimeout,
       timeout_cutoff |-> DefaultTimeoutCutoff,
       selector_class |-> "RoundRobinSelector", randomize_hosts |-> FALSE],
      [connections |-> <<"A", "B">>, dead_timeout |-> DefaultDeadTimeout,
       timeout_cutoff |-> DefaultTimeoutCutoff,
       selector_class |-> "RoundRobinSelector", randomize_hosts |-> FALSE],
      [connections |-> <<"A", "B", "C">>, dead_timeout |-> DefaultDeadTimeout,
       timeout_cutoff |-> DefaultTimeoutCutoff,
       selector_class |-> "RoundRobinSelector", randomize_hosts |-> TRUE] }

InitSelect ==
    /\ \E k \in SelectConstructions : InitPool(k)
    /\ thr = [t \in Threads |-> Idle]
    /\ clock = 0
    /\ last = Call("__init__", NoConn, None, FALSE, "", NoConn, 0, FALSE)
    /\ fails = [c \in Handles |-> 0]
    /\ redeemed = [c \in Handles |-> FALSE]
    /\ streak = 0
    /\ scn = -1

NextSelect == \E t \in Threads : SelectStep(t)

SpecSelect == InitSelect /\ [][NextSelect]_vars

(***************************************************************************)
(* Two threads whose calls overlap only when both are in mark_dead: every  *)
(* other call runs while the other thread is idle.                         *)
(***************************************************************************)
RaceConstructions ==
    { [connections |-> <<"A">>, dead_timeout |-> 1, timeout_cutoff |-> 1,
       selector_class |-> "RoundRobinSelector", randomize_hosts |-> FALSE],
      [connections |-> <<"A", "B">>, dead_timeout |-> 1, timeout_cutoff |-> 1,
       selector_class |-> "RoundRobinSelector", randomize_hosts |-> FALSE] }

InitRace ==
    /\ \E k \in RaceConstructions : InitPool(k)
    /\ thr = [t \in Threads |-> Idle]
    /\ clock = 0
    /\ last = Call("__init__", NoConn, None, FALSE, "", NoConn, 0, FALSE)
    /\ fails = [c \in Handles |-> 0]
    /\ redeemed = [c \in Handles |-> FALSE]
    /\ streak = 0
    /\ scn = -1

InMarkDead(t) == thr[t].pc \in {"md_except", "md_get", "md_set", "md_put"}
OthersIdle(t) == \A u \in Threads \ {t} : thr[u].pc = "idle"
OthersIdleOrInMarkDead(t) == \A u \in Threads \ {t} : thr[u].pc = "idle" \/ InMarkDead(u)

MarkDeadStep(t) ==
    \/ \E c \in Range(connection_opts) : \E now \in {None, dead_timeout} : MdRemove(t, c, now)
    \/ MdExcept(t) \/ MdGet(t) \/ MdSet(t) \/ MdPut(t)

AloneStep(t) ==
    \/ \E c \in Range(connection_opts) : MlDel(t, c)
    \/ \E force \in BOOLEAN : CallResurrect(t, force)
    \/ RsGet(t) \/ RsPut(t) \/ RsAppend(t)

NextRace ==
    \/ \E t \in Threads : OthersIdleOrInMarkDead(t) /\ MarkDeadStep(t)
    \/ \E t \in Threads : OthersIdle(t) /\ AloneStep(t)
    \/ Tick

SpecRace == InitRace /\ [][NextRace]_vars

(***************************************************************************)
(* The transport keeps asking for connections: mark_dead is called with    *)
(* the current clock (now is not given), and get_connection is called      *)
(* again and again.                                                        *)
(***************************************************************************)
LiveConstructions ==
    { [connections |-> <<"A", "B", "C">>, dead_timeout |-> 1, timeout_cutoff |-> 1,
       selector_class |-> "RoundRobinSelector", randomize_hosts |-> FALSE] }

InitLive ==
    /\ \E k \in LiveConstructions : InitPool(k)
    /\ thr = [t \in Threads |-> Idle]
    /\ clock = 0
    /\ last = Call("__init__", NoConn, None, FALSE, "", NoConn, 0, FALSE)
    /\ fails = [c \in Handles |-> 0]
    /\ redeemed = [c \in Handles |-> FALSE]
    /\ streak = 0
    /\ scn = -1

NextLive ==
    \/ \E c \in Handles : MarkDead(c, None)
    \/ \E c \in Handles : MarkLive(c)
    \/ GetConnection
    \/ Tick

SpecLive == InitLive /\ [][NextLive]_vars /\ WF_vars(GetConnection)

(***************************************************************************)
(* Properties.                                                             *)
(***************************************************************************)
\* the eligible-again timestamps under which c is queued in dq
DeadTs(c, dq) == {dq[i][1] : i \in {j \in DOMAIN dq : dq[j][2] = c}}

\* C1: with every method run atomically, get_connection of a pool built from
\* at least one connection raises nothing and returns one of the handles the
\* pool was built from, also when every connection has been marked dead.
C1_GetConnectionReturnsHandle ==
    (Len(connection_opts) >= 1 /\ last.op = "get_connection")
        => /\ last.raised = ""
           /\ last.result \in Range(connection_opts)

\* a get_connection that found every connection dead and forced one back
C1_Witness ==
    /\ last.op = "get_connection"
    /\ last.force
    /\ Len(connection_opts) = 3
    /\ Len(dead) = 2
    /\ last.result \in Range(connection_opts)

\* C2 as stated: round-robin over A,B,C, timeout 60, cutoff 5; the calls get,
\* get, mark_dead(B), get, get return A, B, then C, then A, and leave [A, C].
C2_ScenarioAsStated ==
    /\ scn = 1 => last.result = "A"
    /\ scn = 2 => last.result = "B"
    /\ scn = 4 => last.result = "C"
    /\ scn = 5 => last.result = "A" /\ connections = <<"A", "C">>

\* C2 amended: the calls get, get, mark_dead(B), get, get return A, B, then
\* (after B is marked dead) A again, then C, and the live list is then [A, C].
C2_Scenario ==
    /\ scn = 1 => last.result = "A"
    /\ scn = 2 => last.result = "B"
    /\ scn = 3 => connections = <<"A", "C">> /\ last.timeout = 60
    /\ scn = 4 => last.result = "A"
    /\ scn = 5 => last.result = "C" /\ connections = <<"A", "C">>

\* the five calls of the scenario have been made
C2_Witness == scn = 5 /\ last.op = "get_connection"

\* the durations the claim lists for failures 1..6
C3_Table == <<60, 120, 240, 480, 960, 960>>

\* C3 as stated: with timeout 60 and cutoff 5 the k-th failure in a row of a
\* connection (k = 1..6) quarantines it for 60, 120, 240, 480, 960, 960.
C3_BackoffTable ==
    ( /\ dead_timeout = 60 /\ timeout_cutoff = 5
      /\ last.op = "mark_dead" /\ last.effective
      /\ fails[last.connection] \in 1 .. 6 )
        => last.timeout = C3_Table[fails[last.connection]]

C5_QuarantineStep(c) ==
    /\ (InList(c, connections) /\ ~InList(c, connections'))
          => /\ last'.op = "mark_dead" /\ last'.connection = c
             /\ \A ts \in DeadTs(c, dead') :
                   ts >= (IF last'.now = None THEN clock ELSE last'.now) + last'.timeout
    /\ (~InList(c, connections) /\ ~InList(c, connections'))
          => DeadTs(c, dead') = DeadTs(c, dead)
    /\ (~InList(c, connections) /\ InList(c, connections'))
          => /\ last'.op \in {"resurrect", "get_connection"}
             /\ last'.force \/ \E ts \in DeadTs(c, dead) : ts <= clock

\* C5: once mark_dead has removed c, c stays out of the live list, queued
\* under a timestamp of at least the given now plus the duration, until a
\* resurrect step (alone or inside get_connection) that is forced or runs
\* when the clock has reached that timestamp.
C5_Quarantine == [][\A c \in Handles : C5_QuarantineStep(c)]_vars

\* a connection came back through a resurrect that was not forced
C5_Witness ==
    /\ last.op = "resurrect" /\ ~last.force /\ last.effective
    /\ InList(last.result, connections)
    /\ fails[last.result] >= 1

\* how often c occurs in the live list and the dead queue together
Occurrences(c) ==
    Cardinality({i \in DOMAIN connections : connections[i] = c})
        + Cardinality({i \in DOMAIN dead : dead[i][2] = c})

\* C6: under any interleaving of the threads' steps no handle is twice in the
\* live list, nor in the live list and the dead queue, nor twice in the queue.
C6_NoDuplicates == \A c \in Handles : Occurrences(c) <= 1

\* a mark_dead and a resurrect of two threads are both under way
C6_Witness ==
    \E t, u \in Threads :
        /\ thr[t].pc \in {"md_get", "md_set", "md_put"}
        /\ thr[u].pc \in {"rs_get", "rs_put", "rs_append"}

\* C7 as stated: in every interleaving select runs on a non-empty live list:
\* no thread is about to take the modulo by the length of an empty list, and
\* none has raised the error of doing so.
C7_SelectNeverOnEmpty ==
    \A t \in Threads :
        /\ ~(thr[t].pc = "sel_len" /\ Len(connections) = 0)
        /\ thr[t].exc # "ZeroDivisionError"

\* C8: after any number of failures in a row of c followed by mark_live(c),
\* the next effective mark_dead(c) sets the counter of c to 1 and quarantines
\* c for exactly dead_timeout.
C8_MarkLiveResetsBackoff ==
    (last.op = "mark_dead" /\ last.effective /\ last.after_live)
        => /\ last.connection \in DOMAIN dead_count
           /\ dead_count[last.connection] = 1
           /\ last.timeout = dead_timeout

\* c failed, was marked live, and has failed again
C8_Witness ==
    /\ last.op = "mark_dead" /\ last.effective /\ last.after_live
    /\ fails[last.connection] = 1
    /\ last.raised = ""

\* C9: mark_dead of a connection that is not in the live list raises nothing
\* and changes neither the live list, nor the dead queue, nor any counter.
C9_MarkDeadNotLive ==
    [][ ( /\ last'.op = "mark_dead" /\ clock' = clock
          /\ ~(last'.connection \in Range(connections)) )
            => /\ UNCHANGED <<connections, dead, dead_count>>
               /\ last'.raised = "" ]_vars

\* mark_dead was called on a connection that is quarantined already
C9_Witness ==
    /\ last.op = "mark_dead" /\ ~last.effective
    /\ DeadTs(last.connection, dead) # {}

\* the place of c in the live list, counted from 0
IndexOf(c, l) == CHOOSE i \in 0 .. (Len(l) - 1) : l[i + 1] = c

\* C10: of two get_connection calls in a row on an unchanged live list of N
\* connections, round-robin returns with the second the successor (cyclically)
\* of what the first returned; so N calls return each connection once, in the
\* order of the list, and then start over.
C10_RoundRobinCycle ==
    [][ ( /\ selector_class = "RoundRobinSelector"
          /\ last.op = "get_connection" /\ last'.op = "get_connection"
          /\ clock' = clock /\ connections' = connections )
            => /\ last'.raised = ""
               /\ IndexOf(last'.result, connections) =
                    (IndexOf(last.result, connections) + 1) % Len(connections) ]_vars

\* four calls in a row on an unchanged list of three: the cursor has wrapped
C10_Witness ==
    /\ selector_class = "RoundRobinSelector"
    /\ last.op = "get_connection"
    /\ Len(connections) = 3
    /\ streak = 4

\* C11: with every method run atomically, the counter of c equals the number
\* of mark_dead(c) calls that removed c from the live list since the last
\* mark_live(c) (or since construction), and c has no counter entry exactly
\* when that number is zero.
C11_CounterCountsFailures ==
    \A c \in Handles :
        /\ (c \in DOMAIN dead_count) <=> (fails[c] > 0)
        /\ (c \in DOMAIN dead_count) => dead_count[c] = fails[c]

\* one connection has failed twice in a row, another was redeemed by
\* mark_live after a failure and has no counter
C11_Witness ==
    \E c, d \in Handles :
        /\ c # d
        /\ c \in DOMAIN dead_count /\ dead_count[c] = 2 /\ fails[c] = 2
        /\ redeemed[d] /\ ~(d \in DOMAIN dead_count)

\* the smallest eligible-again timestamp in the queue dq
MinTs(dq) == CHOOSE ts \in {e[1] : e \in Range(dq)} : \A e \in Range(dq) : ts <= e[1]

\* C12: a resurrect that is not forced and finds the smallest timestamp of the
\* dead queue still in the future leaves the live list, the entries of the
\* dead queue and every counter as they were; and no resurrect that is not
\* forced (called directly or by get_connection) brings a connection into the
\* live list whose timestamp the clock has not reached.
C12_ResurrectNotEligible ==
    [][ /\ ( /\ last'.op = "resurrect" /\ ~last'.force /\ clock' = clock
              /\ dead # <<>> /\ MinTs(dead) > clock )
                => /\ connections' = connections
                   /\ Range(dead') = Range(dead) /\ Len(dead') = Len(dead)
                   /\ dead_count' = dead_count
        /\ (last'.op \in {"resurrect", "get_connection"} /\ ~last'.force /\ clock' = clock)
                => \A c \in Handles :
                      (~InList(c, connections) /\ InList(c, connections'))
                          => \E ts \in DeadTs(c, dead) : ts <= clock ]_vars

\* a resurrect that was not forced found two quarantined connections, none
\* of them eligible, and brought back neither
C12_Witness ==
    /\ last.op = "resurrect" /\ ~last.force /\ ~last.effective
    /\ Len(dead) = 2
    /\ MinTs(dead) > clock

\* C13: a resurrect on a non-empty dead queue that is forced, or finds the
\* smallest timestamp reached by the clock, removes exactly one entry, one
\* with the smallest timestamp, appends its connection at the end of the live
\* list and changes no counter; so a forced resurrect on an empty live list
\* and a non-empty dead queue leaves the live list non-empty.
C13_ResurrectEligible ==
    [][ ( /\ last'.op = "resurrect" /\ clock' = clock
          /\ dead # <<>>
          /\ last'.force \/ MinTs(dead) <= clock )
            => /\ \E e \in Range(dead) :
                    /\ e[1] = MinTs(dead)
                    /\ Range(dead') = Range(dead) \ {e}
                    /\ Len(dead') = Len(dead) - 1
                    /\ connections' = Append(connections, e[2])
               /\ dead_count' = dead_count
               /\ connections' # <<>> ]_vars

\* every connection of the pool of three was quarantined, under different
\* timestamps, and a forced resurrect made one live again
C13_Witness ==
    /\ last.op = "resurrect" /\ last.force /\ last.effective
    /\ connections = <<last.result>>
    /\ Len(dead) = 2
    /\ dead[1][1] < dead[2][1]
    /\ clock < dead[1][1]

\* C14: mark_live(c) changes nothing but the counter entry of c, which it
\* removes: the live list and the dead queue stay as they are (a quarantined
\* c stays quarantined) and the counters of the other connections keep their
\* values; for a c without a counter it raises nothing and changes nothing.
C14_MarkLiveFrame ==
    [][ (last'.op = "mark_live" /\ clock' = clock)
            => /\ connections' = connections
               /\ dead' = dead
               /\ last'.raised = ""
               /\ \E c \in Handles \cup {Stranger} :
                    dead_count' = [x \in (DOMAIN dead_count) \ {c} |-> dead_count[x]]
               /\ last'.effective
                    => /\ last'.connection \in DOMAIN dead_count
                       /\ DOMAIN dead_count' = (DOMAIN dead_count) \ {last'.connection}
               /\ ~last'.effective => dead_count' = dead_count ]_vars

\* mark_live was called for a connection that is quarantined, while another
\* connection has a counter too
C14_Witness ==
    /\ last.op = "mark_live" /\ last.effective
    /\ DeadTs(last.connection, dead) # {}
    /\ ~(last.connection \in DOMAIN dead_count)
    /\ dead_count # <<>>

\* C16 as stated: an effective mark_dead(c, now) with a now given by the
\* caller, 0 included, queues exactly one entry for c, under the given now
\* plus the duration computed for this failure.
C16_NowIsHonoured ==
    ( /\ last.op = "mark_dead" /\ last.effective /\ last.raised = ""
      /\ last.now # None )
        => /\ Cardinality({i \in DOMAIN dead : dead[i][2] = last.connection}) = 1
           /\ DeadTs(last.connection, dead) = {last.now + last.timeout}

\* c is quarantined and the clock has reached its timestamp
Elapsed(c) == \E ts \in DeadTs(c, dead) : ts <= clock

\* C17: while get_connection keeps being called and mark_dead is called with
\* the current clock, a quarantined connection whose timestamp the clock has
\* reached comes back into the live list, whatever other connections fail in
\* the meantime.
C17_NoStarvation == \A c \in Handles : Elapsed(c) ~> InList(c, connections)

\* c has waited out its quarantine, and behind it in the queue is a connection
\* that failed later and is not yet eligible
C17_Witness ==
    /\ Len(dead) >= 2
    /\ Elapsed(dead[1][2])
    /\ dead[2][1] > clock

\* t has removed c from the live list and is in the else branch of mark_dead
Removing(t, c) == thr[t].pc \in {"md_get", "md_set", "md_put"} /\ thr[t].connection = c

\* t has found c not in the live list and is in the except branch of mark_dead
Ignoring(t, c) == thr[t].pc = "md_except" /\ thr[t].connection = c

\* C15: of two mark_dead calls of two threads that overlap on the same live
\* connection c, in every interleaving only one removes c; the steps of the
\* other call change neither the live list, nor the queue, nor a counter; the
\* call that removed c raises the counter of c by exactly 1 and puts exactly
\* one entry for c into the queue.
C15_MarkDeadRace ==
    [][ \A t \in Threads : \A c \in Handles :
          /\ \A u \in Threads \ {t} : ~(Removing(t, c)' /\ Removing(u, c)')
          /\ (Ignoring(t, c)' /\ thr[t].pc = "idle") \/ (Ignoring(t, c) /\ thr'[t].pc = "idle")
                => UNCHANGED <<connections, dead, dead_count>>
          /\ (Removing(t, c)' /\ thr[t].pc = "idle")
                => /\ InList(c, connections) /\ ~InList(c, connections')
                   /\ UNCHANGED <<dead, dead_count>>
          /\ (Removing(t, c) /\ thr[t].pc = "md_set" /\ thr'[t].pc = "md_put")
                => /\ dead_count' = DictSet(dead_count, c, DictGet(dead_count, c, 0) + 1)
                   /\ UNCHANGED <<connections, dead>>
          /\ (Removing(t, c) /\ thr[t].pc = "md_put" /\ thr'[t].pc = "idle")
                => /\ DeadTs(c, dead) = {}
                   /\ Cardinality({i \in DOMAIN dead' : dead'[i][2] = c}) = 1
                   /\ Len(dead') = Len(dead) + 1
                   /\ UNCHANGED <<connections, dead_count>> ]_vars

\* two mark_dead calls on A overlap: one thread has removed A and not yet
\* written the counter, the other has found A gone
C15_Witness ==
    \E t, u \in Threads :
        /\ Removing(t, "A") /\ thr[t].pc = "md_set"
        /\ Ignoring(u, "A")
        /\ "A" \in DOMAIN dead_count

\* t has taken c out of the live list or out of the queue and has not yet put
\* it into the other
Holds(t, c) ==
    /\ thr[t].pc \in {"md_get", "md_set", "md_put", "rs_put", "rs_append"}
    /\ thr[t].connection = c

\* C18: in every interleaving of the threads' calls each connection the pool
\* was built from is at any time in exactly one place: the live list, the
\* dead queue, or the hands of one thread that is between the remove and
\* the put of mark_dead or between the get and the put/append of resurrect;
\* when no call is under way, the live list and the queue together hold
\* exactly the connections the pool was built from.
C18_NoHandleLost ==
    /\ \A c \in Range(connection_opts) :
          Occurrences(c) + Cardinality({t \in Threads : Holds(t, c)}) = 1
    /\ (\A t \in Threads : thr[t].pc = "idle")
          => /\ Range(connections) \cup {dead[i][2] : i \in DOMAIN dead}
                  = Range(connection_opts)
             /\ Len(connections) + Len(dead) = Len(connection_opts)

\* both connections of the pool are in the hands of threads: one was
\* removed by a mark_dead, the other popped by a resurrect
C18_Witness ==
    \E t, u \in Threads :
        /\ Holds(t, "A") /\ thr[t].pc = "md_put"
        /\ Holds(u, "B") /\ thr[u].pc = "rs_append"
        /\ connections = <<>> /\ dead = <<>>

\* C19: the dead queue has room for as many entries as the pool was built
\* with connections, and in every interleaving, whenever a thread is about
\* to put (in mark_dead or in the push-back of resurrect), the queue is not
\* full: no put waits.
C19_PutNeverBlocks ==
    /\ Len(dead) <= Len(connection_opts)
    /\ \A t \in Threads :
          thr[t].pc \in {"md_put", "rs_put"} => ~PQFull(dead, DeadMaxsize)

\* a mark_dead is about to put while the other connection is queued and the
\* other thread is about to push back what it popped
C19_Witness ==
    \E t, u \in Threads :
        /\ thr[t].pc = "md_put"
        /\ thr[u].pc = "rs_put"
        /\ Len(connection_opts) = 2

\* C20 as stated: when threads call select at the same time on a non-empty
\* live list that does not change, the cursor a thread indexes the list with
\* is within 0 .. len - 1, and no select raises IndexError.
C20_SelectIndexInRange ==
    \A t \in Threads :
        /\ (thr[t].pc = "sel_index" /\ Len(connections) > 0)
              => thr[t].r \in 0 .. (Len(connections) - 1)
        /\ thr[t].exc # "IndexError"

====
